---------------------------- MODULE Spec2Model ----------------------------
(***************************************************************************)
(* Model of the APC propulsion analyzer: the performance analyzer          *)
(* (prop_tool/analysis.py), the line parser it is fed by                   *)
(* (prop_tool.parser.load_apc_data) and the application flow (app.py).     *)
(*                                                                         *)
(* Floating-point values are modelled as exact rationals <<n, d>> in       *)
(* lowest terms with d > 0; NaN is the pair <<0, 0>>.  math.pi is the      *)
(* rational 22/7.  A DataFrame is an object on a heap (frames), named by   *)
(* its index, holding a sequence of row records.                           *)
(***************************************************************************)
EXTENDS Integers, Sequences, FiniteSets, TLC

VARIABLES
    frames,        \* heap of DataFrame objects: Seq(Seq(row record))
    data,          \* id of the input DataFrame (0: not loaded yet)
    mspec,         \* the MotorSpec handed to compute_motor_performance
    performance,   \* id of the DataFrame returned by compute (0: none)
    outcome,       \* "none" | "return" | "ValueError" | "KeyError"
    calls,         \* number of calls of compute_motor_performance so far
    pc,            \* position of the running script / test
    uploaded,      \* app: whether st.file_uploader returned a file
    widgets,       \* app: values of the sidebar inputs
    selected_rpm,  \* app: the value of the RPM selectbox
    shown,         \* app: what has been put on the page, in order
    lines,         \* parser: the line sequence of the document
    idx,           \* parser: number of lines scanned
    current_rpm,   \* parser: <<>> (undefined) or <<rpm>>
    rows           \* parser: rows emitted so far

vars == <<frames, data, mspec, performance, outcome, calls, pc, uploaded,
          widgets, selected_rpm, shown, lines, idx, current_rpm, rows>>

(***************************************************************************)
(* Bounds of the model.                                                    *)
(***************************************************************************)
MaxRows == 2
MaxLines == 4

(***************************************************************************)
(* Exact rational arithmetic standing for Python / numpy floats.           *)
(***************************************************************************)
RECURSIVE GCD(_, _)
GCD(a, b) == IF b = 0 THEN a ELSE GCD(b, a % b)

Abs(n) == IF n < 0 THEN -n ELSE n

Norm(n, d) ==
    LET s == IF d < 0 THEN -1 ELSE 1
        g == GCD(Abs(n), Abs(d))
    IN  <<(s * n) \div g, (s * d) \div g>>

Q(n) == <<n, 1>>
NaN == <<0, 0>>
IsNaN(x) == x[2] = 0

LCM(a, b) == (a \div GCD(a, b)) * b

\* Arithmetic propagates NaN; a division by zero gives NaN.
RAdd(x, y) ==
    IF IsNaN(x) \/ IsNaN(y) THEN NaN
    ELSE LET l == LCM(x[2], y[2])
         IN  Norm(x[1] * (l \div x[2]) + y[1] * (l \div y[2]), l)

RNeg(x) == <<-x[1], x[2]>>
RSub(x, y) == RAdd(x, RNeg(y))

RMul(x, y) ==
    IF IsNaN(x) \/ IsNaN(y) THEN NaN
    ELSE LET a == Norm(x[1], y[2])
             b == Norm(y[1], x[2])
         IN  <<a[1] * b[1], a[2] * b[2]>>

RDiv(x, y) ==
    IF IsNaN(x) \/ IsNaN(y) \/ y[1] = 0 THEN NaN
    ELSE RMul(x, Norm(y[2], y[1]))

\* Comparisons with NaN are false.
RLeq(x, y) ==
    /\ ~IsNaN(x)
    /\ ~IsNaN(y)
    /\ LET l == LCM(x[2], y[2])
       IN  x[1] * (l \div x[2]) <= y[1] * (l \div y[2])

RLt(x, y) == RLeq(x, y) /\ x # y

Pi == <<22, 7>>
EpsDen == 1000000
Eps == <<1, EpsDen>>

(***************************************************************************)
(* Optional[float]: None is the empty tuple, a value x is <<x>>.           *)
(***************************************************************************)
None == <<>>
Some(x) == <<x>>

(***************************************************************************)
(* prop_tool/analysis.py: MotorSpec and compute_motor_performance.         *)
(***************************************************************************)
MotorSpec(kv, r, v, nl, mc) ==
    [kv_rpm_per_volt |-> kv, resistance_ohm |-> r, voltage |-> v,
     no_load_current |-> nl, max_current |-> mc]

\* Faulty variant: the guard written kv_rpm_per_volt < 0.
KvNotPositiveStrict(spec) == RLt(spec.kv_rpm_per_volt, Q(0))
\* The guard of the kt_nm_per_amp property: kv_rpm_per_volt <= 0.
KvNotPositive(spec) == RLeq(spec.kv_rpm_per_volt, Q(0))

\* The property MotorSpec.kt_nm_per_amp: raises ValueError or returns
\* 60.0 / (2.0 * math.pi * kv).
kt_nm_per_amp(spec) ==
    IF KvNotPositive(spec)
    THEN [raised |-> "ValueError", value |-> NaN]
    ELSE [raised |-> "",
          value |-> RDiv(Q(60), RMul(RMul(Q(2), Pi), spec.kv_rpm_per_volt))]

\* current = torque_nm / kt + spec.no_load_current
Current(row, spec, kt) == RAdd(RDiv(row.torque_nm, kt), spec.no_load_current)

\* required_voltage = rpm / kv + current * resistance_ohm
RequiredVoltage(row, spec, current) ==
    RAdd(RDiv(row.rpm, spec.kv_rpm_per_volt), RMul(current, spec.resistance_ohm))

\* electrical_power = required_voltage * current
ElectricalPower(required_voltage, current) == RMul(required_voltage, current)

\* Faulty variant: 0.0 instead of nan where electrical power <= 0.
MotorEfficiencyZeroFill(mechanical_power, electrical_power) ==
    IF RLt(Q(0), electrical_power)
    THEN RDiv(mechanical_power, electrical_power)
    ELSE Q(0)
\* np.where(electrical_power > 0, mechanical_power / electrical_power, nan)
MotorEfficiency(mechanical_power, electrical_power) ==
    IF RLt(Q(0), electrical_power)
    THEN RDiv(mechanical_power, electrical_power)
    ELSE NaN

\* Faulty variants: the current limit never applied; the voltage test
\* left out.
FeasibleVoltageOnly(required_voltage, current, spec) ==
    RLeq(required_voltage, RAdd(spec.voltage, Eps))
FeasibleCurrentOnly(required_voltage, current, spec) ==
    \/ spec.max_current = None
    \/ RLeq(current, RAdd(spec.max_current[1], Eps))
\* feasible = required_voltage <= voltage + 1e-6, and with a current limit
\* feasible &= current <= max_current + 1e-6
Feasible(required_voltage, current, spec) ==
    /\ RLeq(required_voltage, RAdd(spec.voltage, Eps))
    /\ \/ spec.max_current = None
       \/ RLeq(current, RAdd(spec.max_current[1], Eps))

\* spec.voltage - required_voltage
VoltageHeadroom(required_voltage, spec) == RSub(spec.voltage, required_voltage)

\* The six column assignments on one row of df.
AugmentRow(row, spec, kt) ==
    LET current == Current(row, spec, kt)
        required_voltage == RequiredVoltage(row, spec, current)
        electrical_power == ElectricalPower(required_voltage, current)
    IN  [motor_current_a |-> current,
         motor_voltage_v |-> required_voltage,
         motor_power_w |-> electrical_power,
         motor_efficiency |-> MotorEfficiency(row.power_w, electrical_power),
         feasible |-> Feasible(required_voltage, current, spec),
         voltage_headroom_v |-> VoltageHeadroom(required_voltage, spec)] @@ row

\* Faulty variant: infeasible rows are filtered out of the result.
AssignColumnsFeasibleOnly(h, df, spec, kt) ==
    [h EXCEPT ![df] =
        SelectSeq([i \in 1..Len(h[df]) |-> AugmentRow(h[df][i], spec, kt)],
                  LAMBDA r : r.feasible)]
\* The vectorised computation over all rows of df, then df[...] = ... in place.
AssignColumns(h, df, spec, kt) ==
    [h EXCEPT ![df] = [i \in 1..Len(h[df]) |-> AugmentRow(h[df][i], spec, kt)]]

\* Faulty variant: df = data, the same object.
DataFrameAlias(h, id) == [frames |-> h, id |-> id]
\* DataFrame.copy(): a new object with the same rows.
DataFrameCopy(h, id) == [frames |-> Append(h, h[id]), id |-> Len(h) + 1]

\* DataFrame.empty
Empty(h, id) == Len(h[id]) = 0

\* Faulty variant: the torque constant is read before data.empty is tested.
ComputeKtFirst(h, d, spec) ==
    LET kt == kt_nm_per_amp(spec)
        c  == DataFrameCopy(h, d)
    IN  IF kt.raised # ""
        THEN [outcome |-> kt.raised, frames |-> h, ret |-> 0]
        ELSE [outcome |-> "return",
              frames |-> AssignColumns(c.frames, c.id, spec, kt.value),
              ret |-> c.id]
\* compute_motor_performance(data, spec) on heap h: the outcome, the heap
\* after the call and the id of the returned DataFrame (0 when it raised).
compute_motor_performance(h, d, spec) ==
    IF Empty(h, d)
    THEN LET c == DataFrameCopy(h, d)
         IN  [outcome |-> "return", frames |-> c.frames, ret |-> c.id]
    ELSE LET c  == DataFrameCopy(h, d)
             kt == kt_nm_per_amp(spec)
         IN  IF kt.raised # ""
             THEN [outcome |-> kt.raised, frames |-> c.frames, ret |-> 0]
             ELSE [outcome |-> "return",
                   frames |-> AssignColumns(c.frames, c.id, spec, kt.value),
                   ret |-> c.id]

(***************************************************************************)
(* Inputs of the analyzer: datasets of at most MaxRows rows and motor      *)
(* specifications, with values on and around every limit the code tests.   *)
(***************************************************************************)
Row(rpm, mph, thrust, torque, power) ==
    [rpm |-> rpm, mph |-> mph, thrust_n |-> thrust, torque_nm |-> torque,
     power_w |-> power]

\* With kv = 105: kt = 1/11, a torque of 1 N.m draws 11 A; 1050 rpm is a
\* back-EMF of 10 V and a shaft power of 110 W.
TestRows ==
    {Row(Q(1050), Q(0), Q(5), Q(t), Q(p)) : t \in {0, 1}, p \in {0, 110, 200}}
    \cup {Row(Q(2100), Q(0), Q(5), Q(t), Q(110)) : t \in {0, 1}}
    \cup {Row(Q(1050), Q(10), Q(-1), Q(-1), Q(0))}

SeqsUpTo(S, n) == UNION {[1..k -> S] : k \in 0..n}

TestDatasets == SeqsUpTo(TestRows, MaxRows)

JustBelow(n) == <<2 * EpsDen * n - 1, 2 * EpsDen>>

TestSpecs ==
    {MotorSpec(Q(kv), r, v, Q(nl), mc) :
        kv \in {-105, 0, 105},
        r \in {Q(0), <<1, 10>>},
        v \in {Q(10), JustBelow(10)},
        nl \in {0, 1},
        mc \in {None, Some(Q(11)), Some(JustBelow(11))}}

(***************************************************************************)
(* The analyzer called on its own, as tests/test_pipeline.py calls it.     *)
(***************************************************************************)
IdleApp ==
    /\ uploaded = FALSE
    /\ widgets = <<>>
    /\ selected_rpm = NaN
    /\ shown = <<>>

IdleParser ==
    /\ lines = <<>>
    /\ idx = 0
    /\ current_rpm = None
    /\ rows = <<>>

InitCompute ==
    /\ \E ds \in TestDatasets : frames = <<ds>>
    /\ data = 1
    /\ mspec \in TestSpecs
    /\ performance = 0
    /\ outcome = "none"
    /\ calls = 0
    /\ pc = "ready"
    /\ IdleApp
    /\ IdleParser

\* performance = compute_motor_performance(data, spec)
TestCompute ==
    /\ pc = "ready"
    /\ LET c == compute_motor_performance(frames, data, mspec)
       IN  /\ frames' = c.frames
           /\ performance' = c.ret
           /\ outcome' = c.outcome
           /\ pc' = IF c.outcome = "return" THEN "returned" ELSE "raised"
    /\ calls' = calls + 1
    /\ UNCHANGED <<data, mspec, uploaded, widgets, selected_rpm, shown,
                   lines, idx, current_rpm, rows>>

\* The caller then changes the returned DataFrame in place: it drops the
\* first row, or sets torque_nm to 0 in every row.
ModifyReturned ==
    /\ pc = "returned"
    /\ \/ /\ Len(frames[performance]) > 0
          /\ frames' = [frames EXCEPT ![performance] = Tail(@)]
       \/ frames' = [frames EXCEPT ![performance] =
                        [i \in 1..Len(@) |-> [@[i] EXCEPT !.torque_nm = Q(0)]]]
       \/ frames' = [frames EXCEPT ![performance] =
                        Append(@, Row(Q(0), Q(0), Q(0), Q(0), Q(0)))]
    /\ pc' = "modified"
    /\ UNCHANGED <<data, mspec, performance, outcome, calls, uploaded,
                   widgets, selected_rpm, shown, lines, idx, current_rpm, rows>>

NextCompute == TestCompute \/ ModifyReturned

Spec == InitCompute /\ [][NextCompute]_vars

(***************************************************************************)
(* Properties of compute_motor_performance, stated on the call's result.   *)
(***************************************************************************)
Input == frames[data]
Output == frames[performance]
Returned == pc = "returned"
Called == pc \in {"returned", "raised"}
BaseColumns == {"rpm", "mph", "thrust_n", "torque_nm", "power_w"}
NewColumns == {"motor_current_a", "motor_voltage_v", "motor_power_w",
               "motor_efficiency", "feasible", "voltage_headroom_v"}
WithinLimits(r) ==
    /\ RLeq(r.motor_voltage_v, RAdd(mspec.voltage, Eps))
    /\ \/ mspec.max_current = None
       \/ RLeq(r.motor_current_a, RAdd(mspec.max_current[1], Eps))

\* C1: in every row of the output, for a spec with kv > 0, feasible is TRUE
\* exactly when motor_voltage_v <= voltage + 1e-6 and (max_current is None or
\* motor_current_a <= max_current + 1e-6); without a current limit the
\* current plays no part.
C1_FeasibleIffWithinLimits ==
    (Returned /\ RLt(Q(0), mspec.kv_rpm_per_volt)) =>
        \A i \in 1..Len(Output) :
            /\ Output[i].feasible <=> WithinLimits(Output[i])
            /\ mspec.max_current = None =>
                 (Output[i].feasible <=>
                    RLeq(Output[i].motor_voltage_v, RAdd(mspec.voltage, Eps)))

\* C1 witness: a result with a row over the current limit (infeasible for
\* that reason alone) and a result without a limit whose row draws 12 A and
\* is feasible.
C1_Witness ==
    /\ Returned
    /\ mspec.max_current = Some(Q(11))
    /\ \E i \in 1..Len(Output) :
          /\ ~Output[i].feasible
          /\ RLeq(Output[i].motor_voltage_v, mspec.voltage)
          /\ Output[i].motor_current_a = Q(12)

\* C2 as claimed: with kv <= 0 the call raises for every input dataset and
\* returns no dataset.
C2_RaisesForEveryDataset ==
    (Called /\ RLeq(mspec.kv_rpm_per_volt, Q(0))) =>
        (outcome = "ValueError" /\ performance = 0)

\* C2 amended: with kv <= 0 and a non-empty input dataset the call raises
\* ValueError (the InvalidSpec condition) when the torque constant is
\* requested: no dataset is returned and no row has been processed.
C2_RaisesForNonEmptyDataset ==
    (Called /\ RLeq(mspec.kv_rpm_per_volt, Q(0)) /\ Len(Input) > 0) =>
        /\ outcome = "ValueError"
        /\ performance = 0
        /\ \A f \in 1..Len(frames) : \A i \in 1..Len(frames[f]) :
              DOMAIN frames[f][i] = BaseColumns

C2_Witness ==
    /\ pc = "raised"
    /\ outcome = "ValueError"
    /\ mspec.kv_rpm_per_volt = Q(0)
    /\ Len(Input) = MaxRows

\* C3: on a dataset with zero rows the call returns a dataset with zero rows
\* and raises nothing, for every MotorSpec, a spec with kv <= 0 included.
C3_EmptyInEmptyOut ==
    (Called /\ Len(Input) = 0) =>
        (outcome = "return" /\ performance # 0 /\ Len(Output) = 0)

C3_Witness ==
    /\ Returned
    /\ Len(Input) = 0
    /\ Len(Output) = 0
    /\ RLeq(mspec.kv_rpm_per_volt, Q(0))

\* C4: the output has exactly the input rows, in the same order, each
\* extended with the six motor columns; a row whose electrical power is <= 0
\* is kept with motor_efficiency undefined and its feasible flag decided by
\* the voltage and current limits alone.
C4_RowsKeptInOrder ==
    (Returned /\ Len(Input) > 0) =>
        /\ Len(Output) = Len(Input)
        /\ \A i \in 1..Len(Output) :
              /\ DOMAIN Output[i] = BaseColumns \cup NewColumns
              /\ \A c \in BaseColumns : Output[i][c] = Input[i][c]
              /\ Output[i].motor_power_w =
                    RMul(Output[i].motor_voltage_v, Output[i].motor_current_a)
              /\ RLeq(Output[i].motor_power_w, Q(0)) =>
                    /\ IsNaN(Output[i].motor_efficiency)
                    /\ Output[i].feasible <=> WithinLimits(Output[i])

\* C4 witness: two different rows, the first infeasible with a defined
\* efficiency, the second feasible with electrical power <= 0.
C4_Witness ==
    /\ Returned
    /\ Len(Output) = 2
    /\ Input[1] # Input[2]
    /\ ~Output[1].feasible
    /\ ~IsNaN(Output[1].motor_efficiency)
    /\ Output[2].feasible
    /\ RLeq(Output[2].motor_power_w, Q(0))
    /\ IsNaN(Output[2].motor_efficiency)

\* C5: no step (the call, returning or raising, or a later modification of
\* the returned dataset) changes the input dataset, and the returned dataset
\* is an object other than the input.
C5_InputNotMutated ==
    [][/\ data' = data
       /\ frames'[data] = frames[data]
       /\ performance' # 0 => performance' # data]_vars

C5_Witness ==
    /\ pc = "modified"
    /\ Len(Input) > 0
    /\ Output # Input
    /\ \A i \in 1..Len(Input) : DOMAIN Input[i] = BaseColumns

\* The data model's bounds on a row and a valid spec, as C6 assumes them.
RowInDataModel(r) ==
    /\ RLeq(Q(0), r.torque_nm)
    /\ RLeq(Q(0), r.power_w)
    /\ RLeq(Q(0), r.rpm)
ValidSpec ==
    /\ RLt(Q(0), mspec.kv_rpm_per_volt)
    /\ RLeq(Q(0), mspec.resistance_ohm)
    /\ RLeq(Q(0), mspec.no_load_current)

\* C6 as claimed: for a row within the data model and a valid spec,
\* motor_efficiency is undefined exactly when electrical power <= 0, and
\* otherwise lies in [0, 1].
C6_EfficiencyInUnitInterval ==
    (Returned /\ ValidSpec) =>
        \A i \in 1..Len(Output) : RowInDataModel(Output[i]) =>
            /\ IsNaN(Output[i].motor_efficiency) <=>
                  RLeq(Output[i].motor_power_w, Q(0))
            /\ ~IsNaN(Output[i].motor_efficiency) =>
                  /\ RLeq(Q(0), Output[i].motor_efficiency)
                  /\ RLeq(Output[i].motor_efficiency, Q(1))

\* C6 amended: for a row within the data model and a valid spec,
\* motor_efficiency is undefined exactly when electrical power <= 0, and
\* otherwise is power_w / motor_power_w, a value >= 0 that is <= 1 whenever
\* power_w <= motor_power_w.
C6_EfficiencyNonNegative ==
    (Returned /\ ValidSpec) =>
        \A i \in 1..Len(Output) : RowInDataModel(Output[i]) =>
            /\ IsNaN(Output[i].motor_efficiency) <=>
                  RLeq(Output[i].motor_power_w, Q(0))
            /\ ~IsNaN(Output[i].motor_efficiency) =>
                  /\ Output[i].motor_efficiency =
                        RDiv(Output[i].power_w, Output[i].motor_power_w)
                  /\ RLeq(Q(0), Output[i].motor_efficiency)
                  /\ RLeq(Output[i].power_w, Output[i].motor_power_w) =>
                        RLeq(Output[i].motor_efficiency, Q(1))

\* C6 witness: one result with an undefined efficiency, an efficiency of
\* exactly 1 and one result with an efficiency above 1.
C6_Witness ==
    /\ Returned
    /\ ValidSpec
    /\ Len(Output) = 2
    /\ RowInDataModel(Output[1])
    /\ RowInDataModel(Output[2])
    /\ IsNaN(Output[1].motor_efficiency)
    /\ RLt(Q(1), Output[2].motor_efficiency)

\* C7 as claimed: voltage_headroom_v = voltage - motor_voltage_v, and a
\* negative headroom means feasible is FALSE.
C7_NegativeHeadroomInfeasible ==
    Returned =>
        \A i \in 1..Len(Output) :
            /\ Output[i].voltage_headroom_v =
                  RSub(mspec.voltage, Output[i].motor_voltage_v)
            /\ RLt(Output[i].voltage_headroom_v, Q(0)) => ~Output[i].feasible

\* C7 amended: voltage_headroom_v = voltage - motor_voltage_v, and when
\* motor_voltage_v exceeds voltage + 1e-6, that is when the headroom is below
\* -1e-6, feasible is FALSE (whatever the current limit); a headroom in
\* [-1e-6, 0) is within the tolerance of the voltage test.
C7_HeadroomBelowEpsInfeasible ==
    Returned =>
        \A i \in 1..Len(Output) :
            /\ Output[i].voltage_headroom_v =
                  RSub(mspec.voltage, Output[i].motor_voltage_v)
            /\ RLt(RAdd(mspec.voltage, Eps), Output[i].motor_voltage_v) =>
                  ~Output[i].feasible
            /\ RLt(Output[i].voltage_headroom_v, RNeg(Eps)) =>
                  ~Output[i].feasible

\* C7 witness: a row 10 V short of the supply, infeasible with no current
\* limit set.
C7_Witness ==
    /\ Returned
    /\ mspec.max_current = None
    /\ \E i \in 1..Len(Output) :
          /\ RLt(Output[i].voltage_headroom_v, RNeg(Eps))
          /\ ~Output[i].feasible

(***************************************************************************)
(* prop_tool.parser.load_apc_data: the state machine over the lines of a   *)
(* document.  A line is classified by the two recognition patterns: an RPM *)
(* header carrying an integer, a data row whose numeric fields all parse,  *)
(* a data row with a field that does not parse ("malformed"), or anything  *)
(* else ("other").                                                         *)
(***************************************************************************)
HeaderLine(rpm) == [kind |-> "header", rpm |-> rpm]
DataLine(mph, lbf) == [kind |-> "data", mph |-> mph, thrust_lbf |-> lbf]
MalformedLine == [kind |-> "malformed"]
OtherLine == [kind |-> "other"]

\* 1 lbf = 4.44822 N
LbfToN(lbf) == RMul(lbf, <<444822, 100000>>)

\* The PerformanceRow bound to the current RPM.
PerformanceRow(rpm, line) ==
    [rpm |-> rpm, mph |-> line.mph, thrust_lbf |-> line.thrust_lbf,
     thrust_n |-> LbfToN(line.thrust_lbf)]

\* Faulty variant: a data row is emitted whether or not an RPM is current.
ScanLineNoRpmCheck(cur, out, line) ==
    CASE line.kind = "header" ->
            [current_rpm |-> Some(line.rpm), rows |-> out]
      [] line.kind = "data" ->
            [current_rpm |-> cur,
             rows |-> Append(out, PerformanceRow(IF cur = None THEN 0 ELSE cur[1], line))]
      [] OTHER -> [current_rpm |-> cur, rows |-> out]
\* One line of the scan: the current RPM and the emitted rows after it.
ScanLine(cur, out, line) ==
    CASE line.kind = "header" ->
            [current_rpm |-> Some(line.rpm), rows |-> out]
      [] line.kind = "data" /\ cur # None ->
            [current_rpm |-> cur,
             rows |-> Append(out, PerformanceRow(cur[1], line))]
      [] OTHER -> [current_rpm |-> cur, rows |-> out]

\* The whole scan of a line sequence, from an undefined current RPM.
RECURSIVE ScanFrom(_, _, _)
ScanFrom(cur, out, ls) ==
    IF ls = <<>> THEN out
    ELSE LET st == ScanLine(cur, out, Head(ls))
         IN  ScanFrom(st.current_rpm, st.rows, Tail(ls))

load_apc_data(ls) == ScanFrom(None, <<>>, ls)

DocLines ==
    {HeaderLine(1050), HeaderLine(2100), DataLine(Q(0), Q(1)),
     DataLine(Q(10), Q(0)), MalformedLine, OtherLine}

Documents == SeqsUpTo(DocLines, MaxLines)

IdleCompute ==
    /\ frames = <<>>
    /\ data = 0
    /\ mspec = <<>>
    /\ performance = 0
    /\ outcome = "none"
    /\ calls = 0

InitParser ==
    /\ lines \in Documents
    /\ idx = 0
    /\ current_rpm = None
    /\ rows = <<>>
    /\ pc = "scanning"
    /\ IdleCompute
    /\ IdleApp

\* An RPM header: the current RPM is updated.
ScanHeader ==
    /\ pc = "scanning"
    /\ idx < Len(lines)
    /\ lines[idx + 1].kind = "header"
    /\ current_rpm' = ScanLine(current_rpm, rows, lines[idx + 1]).current_rpm
    /\ rows' = ScanLine(current_rpm, rows, lines[idx + 1]).rows
    /\ idx' = idx + 1
    /\ UNCHANGED <<frames, data, mspec, performance, outcome, calls, pc,
                   uploaded, widgets, selected_rpm, shown, lines>>

\* A data row inside a block: one row is emitted.
ScanDataRow ==
    /\ pc = "scanning"
    /\ idx < Len(lines)
    /\ lines[idx + 1].kind = "data"
    /\ current_rpm # None
    /\ current_rpm' = ScanLine(current_rpm, rows, lines[idx + 1]).current_rpm
    /\ rows' = ScanLine(current_rpm, rows, lines[idx + 1]).rows
    /\ idx' = idx + 1
    /\ UNCHANGED <<frames, data, mspec, performance, outcome, calls, pc,
                   uploaded, widgets, selected_rpm, shown, lines>>

\* A data row before any RPM header: skipped.
ScanOrphanRow ==
    /\ pc = "scanning"
    /\ idx < Len(lines)
    /\ lines[idx + 1].kind = "data"
    /\ current_rpm = None
    /\ current_rpm' = ScanLine(current_rpm, rows, lines[idx + 1]).current_rpm
    /\ rows' = ScanLine(current_rpm, rows, lines[idx + 1]).rows
    /\ idx' = idx + 1
    /\ UNCHANGED <<frames, data, mspec, performance, outcome, calls, pc,
                   uploaded, widgets, selected_rpm, shown, lines>>

\* A malformed row or a line matching neither pattern: skipped.
ScanSkipped ==
    /\ pc = "scanning"
    /\ idx < Len(lines)
    /\ lines[idx + 1].kind \in {"malformed", "other"}
    /\ current_rpm' = ScanLine(current_rpm, rows, lines[idx + 1]).current_rpm
    /\ rows' = ScanLine(current_rpm, rows, lines[idx + 1]).rows
    /\ idx' = idx + 1
    /\ UNCHANGED <<frames, data, mspec, performance, outcome, calls, pc,
                   uploaded, widgets, selected_rpm, shown, lines>>

\* End of input: the emitted rows are the dataset returned.
ScanDone ==
    /\ pc = "scanning"
    /\ idx = Len(lines)
    /\ pc' = "parsed"
    /\ UNCHANGED <<frames, data, mspec, performance, outcome, calls, uploaded,
                   widgets, selected_rpm, shown, lines, idx, current_rpm, rows>>

NextParser ==
    ScanHeader \/ ScanDataRow \/ ScanOrphanRow \/ ScanSkipped \/ ScanDone

ParserSpec == InitParser /\ [][NextParser]_vars

IsHeader(i) == lines[i].kind = "header"
\* The lines that must emit a row: well-formed data rows after a header.
Headed == {i \in 1..Len(lines) :
              lines[i].kind = "data" /\ \E j \in 1..(i - 1) : IsHeader(j)}
LastHeader(i) ==
    CHOOSE j \in 1..(i - 1) :
        IsHeader(j) /\ \A k \in (j + 1)..(i - 1) : ~IsHeader(k)
Rank(i) == Cardinality({j \in Headed : j <= i})
\* The document without its data rows that precede every header.
WithoutOrphans ==
    LET keep == {i \in 1..Len(lines) : lines[i].kind # "data" \/ i \in Headed}
        F[i \in 0..Len(lines)] ==
            IF i = 0 THEN <<>>
            ELSE IF i \in keep THEN Append(F[i - 1], lines[i]) ELSE F[i - 1]
    IN  F[Len(lines)]

\* C8: the emitted rows are exactly the well-formed data-row lines that
\* follow at least one RPM header, in document order, each with the rpm of
\* the most recent header before it; a data row before any header emits
\* nothing and leaves the rows of the later blocks as they are, and a
\* document without a header yields no row.
C8_RowsAreHeadedDataLines ==
    pc = "parsed" =>
        /\ Len(rows) = Cardinality(Headed)
        /\ \A i \in Headed :
              rows[Rank(i)] = PerformanceRow(lines[LastHeader(i)].rpm, lines[i])
        /\ rows = load_apc_data(WithoutOrphans)
        /\ (\A i \in 1..Len(lines) : ~IsHeader(i)) => rows = <<>>

\* C8 witness: an orphan data row, then two headed blocks with a row each.
C8_Witness ==
    /\ pc = "parsed"
    /\ Len(lines) = 4
    /\ lines[1].kind = "data"
    /\ lines[2].kind = "header"
    /\ lines[3].kind = "data"
    /\ lines[4].kind = "data"
    /\ Len(rows) = 2
    /\ rows[1].mph # rows[2].mph

(***************************************************************************)
(* app.py: one run of the Streamlit script, top to bottom.                 *)
(***************************************************************************)
\* The values the sidebar inputs can take (kv in [100, 5000], resistance
\* >= 0, voltage >= 1, no-load current >= 0, max current >= 0).
SidebarInputs ==
    [kv : {Q(105)},
     resistance : {Q(0), <<1, 10>>},
     voltage : {Q(10), Q(22)},
     no_load_current : {Q(0), Q(1)},
     max_current : {Q(11)},
     enforce_current_limit : BOOLEAN]

\* The datasets load_apc_data can hand to the script.
AppRows ==
    {Row(Q(rpm), Q(0), Q(th), Q(t), Q(110)) :
        rpm \in {1050, 2100}, th \in {3, 5}, t \in {0, 1}}

AppDatasets == SeqsUpTo(AppRows, MaxRows)

\* What the script puts on the page: the st.* call, its text, its value.
Element(kind, label) == [kind |-> kind, label |-> label, value |-> NaN]
NoDatapoints == Element("warning", "No datapoints found")
NoFeasible == Element("warning", "No feasible operating points")

InitApp ==
    /\ uploaded \in BOOLEAN
    /\ widgets \in SidebarInputs
    /\ frames = <<>>
    /\ data = 0
    /\ mspec = <<>>
    /\ performance = 0
    /\ outcome = "none"
    /\ calls = 0
    /\ selected_rpm = NaN
    /\ shown = <<>>
    /\ pc = "start"
    /\ IdleParser

\* data = load_apc_data(uploaded or the bundled sample), then st.success
\* or st.info.
LoadData ==
    /\ pc = "start"
    /\ \E ds \in AppDatasets : frames' = <<ds>>
    /\ data' = 1
    /\ shown' = Append(shown, IF uploaded THEN Element("success", "Loaded")
                               ELSE Element("info", "Using bundled sample"))
    /\ pc' = "loaded"
    /\ UNCHANGED <<mspec, performance, outcome, calls, uploaded, widgets,
                   selected_rpm, lines, idx, current_rpm, rows>>

\* Faulty variant: the warning without st.stop().
WarnOnEmptyAndGoOn ==
    /\ pc = "loaded"
    /\ Empty(frames, data)
    /\ shown' = Append(shown, NoDatapoints)
    /\ pc' = "checked"
    /\ UNCHANGED <<frames, data, mspec, performance, outcome, calls,
                   uploaded, widgets, selected_rpm, lines, idx, current_rpm,
                   rows>>
\* if data.empty: st.warning(...); st.stop()
StopOnEmpty ==
    /\ pc = "loaded"
    /\ Empty(frames, data)
    /\ shown' = Append(shown, NoDatapoints)
    /\ pc' = "stopped"
    /\ UNCHANGED <<frames, data, mspec, performance, outcome, calls,
                   uploaded, widgets, selected_rpm, lines, idx, current_rpm,
                   rows>>

\* The test of data.empty is false: the script goes on.
PassNonEmpty ==
    /\ pc = "loaded"
    /\ ~Empty(frames, data)
    /\ pc' = "checked"
    /\ UNCHANGED <<frames, data, mspec, performance, outcome, calls,
                   uploaded, widgets, selected_rpm, shown, lines, idx,
                   current_rpm, rows>>

\* spec = MotorSpec(...); performance = compute_motor_performance(data, spec)
BuildSpec ==
    MotorSpec(widgets.kv, widgets.resistance, widgets.voltage,
              widgets.no_load_current,
              IF widgets.enforce_current_limit
              THEN Some(widgets.max_current) ELSE None)

ComputePerformance ==
    /\ pc = "checked"
    /\ mspec' = BuildSpec
    /\ LET c == compute_motor_performance(frames, data, BuildSpec)
       IN  /\ frames' = c.frames
           /\ performance' = c.ret
           /\ outcome' = c.outcome
           /\ pc' = IF c.outcome = "return" THEN "computed" ELSE "crashed"
    /\ calls' = calls + 1
    /\ UNCHANGED <<data, uploaded, widgets, selected_rpm, shown, lines, idx,
                   current_rpm, rows>>

\* available_rpms = np.sort(performance["rpm"].unique())
AvailableRpms == {frames[performance][i].rpm : i \in 1..Len(frames[performance])}

\* selected_rpm = st.selectbox(...): any of the available values (the last
\* one unless the user picks another).
SelectRpm ==
    /\ pc = "computed"
    /\ selected_rpm' \in AvailableRpms
    /\ pc' = "selected"
    /\ UNCHANGED <<frames, data, mspec, performance, outcome, calls,
                   uploaded, widgets, shown, lines, idx, current_rpm, rows>>

\* rpm_frame and feasible_frame
RpmFrame == SelectSeq(frames[performance], LAMBDA r : r.rpm = selected_rpm)
FeasibleFrame == SelectSeq(RpmFrame, LAMBDA r : r.feasible)

Column(f, c) == {f[i][c] : i \in 1..Len(f)}
\* Series.max() and idxmax() skip NaN.
NotNaN(S) == {x \in S : ~IsNaN(x)}
RMax(S) == CHOOSE x \in S : \A y \in S : RLeq(y, x)

Metric(label, value) == [kind |-> "metric", label |-> label, value |-> value]

\* The three st.metric calls over the feasible rows of the block.
SummaryMetrics ==
    <<Metric("Peak motor efficiency",
             RMax(NotNaN(Column(FeasibleFrame, "motor_efficiency")))),
      Metric("Max thrust", RMax(Column(FeasibleFrame, "thrust_n"))),
      Metric("Max current draw",
             RMax(Column(FeasibleFrame, "motor_current_a")))>>

\* if not feasible_frame.empty: idxmax finds a row, the metrics are shown.
ShowMetrics ==
    /\ pc = "selected"
    /\ Len(FeasibleFrame) > 0
    /\ NotNaN(Column(FeasibleFrame, "motor_efficiency")) # {}
    /\ shown' = shown \o SummaryMetrics
    /\ pc' = "summarised"
    /\ UNCHANGED <<frames, data, mspec, performance, outcome, calls,
                   uploaded, widgets, selected_rpm, lines, idx, current_rpm,
                   rows>>

\* if not feasible_frame.empty, with motor_efficiency NaN in every feasible
\* row: idxmax() has no row to name; it raises ValueError, or returns NaN
\* and .loc[NaN] raises KeyError, by the pandas version.  The script ends.
MetricsRaise ==
    /\ pc = "selected"
    /\ Len(FeasibleFrame) > 0
    /\ NotNaN(Column(FeasibleFrame, "motor_efficiency")) = {}
    /\ outcome' \in {"ValueError", "KeyError"}
    /\ pc' = "crashed"
    /\ UNCHANGED <<frames, data, mspec, performance, calls, uploaded,
                   widgets, selected_rpm, shown, lines, idx, current_rpm,
                   rows>>

\* else: cols[0].warning("No feasible operating points ...")
WarnNoFeasible ==
    /\ pc = "selected"
    /\ Len(FeasibleFrame) = 0
    /\ shown' = Append(shown, NoFeasible)
    /\ pc' = "summarised"
    /\ UNCHANGED <<frames, data, mspec, performance, outcome, calls,
                   uploaded, widgets, selected_rpm, lines, idx, current_rpm,
                   rows>>

\* st.dataframe(rpm_frame[[...]])
ShowTable ==
    /\ pc = "summarised"
    /\ shown' = Append(shown, Element("dataframe", "Performance tables"))
    /\ pc' = "tabled"
    /\ UNCHANGED <<frames, data, mspec, performance, outcome, calls,
                   uploaded, widgets, selected_rpm, lines, idx, current_rpm,
                   rows>>

\* if not rpm_frame.empty: the three charts; then the caption.
ShowCharts ==
    /\ pc = "tabled"
    /\ shown' = (IF Len(RpmFrame) > 0
                 THEN Append(shown, Element("pyplot", "Visualisations"))
                 ELSE shown) \o <<Element("caption", "")>>
    /\ pc' = "done"
    /\ UNCHANGED <<frames, data, mspec, performance, outcome, calls,
                   uploaded, widgets, selected_rpm, lines, idx, current_rpm,
                   rows>>

NextApp ==
    \/ LoadData
    \/ StopOnEmpty
    \/ PassNonEmpty
    \/ ComputePerformance
    \/ SelectRpm
    \/ ShowMetrics
    \/ MetricsRaise
    \/ WarnNoFeasible
    \/ ShowTable
    \/ ShowCharts

AppSpec == InitApp /\ [][NextApp]_vars

Shown(x) == \E i \in 1..Len(shown) : shown[i] = x
Loaded == data # 0
AfterCompute == {"computed", "selected", "summarised", "tabled", "done", "crashed"}

\* C9: an empty dataset from load_apc_data is terminal: the notice is shown
\* and the script stops, so the computation, the RPM selection, the tables
\* and the charts are never reached with an empty dataset; with a non-empty
\* dataset compute_motor_performance is called exactly once, after the load.
C9_EmptyIsTerminal ==
    /\ calls <= 1
    /\ calls = 1 <=> pc \in AfterCompute
    /\ calls = 1 => (Loaded /\ ~Empty(frames, data))
    /\ (Loaded /\ Empty(frames, data)) =>
          /\ pc \in {"loaded", "stopped"}
          /\ performance = 0
          /\ IsNaN(selected_rpm)
          /\ \A i \in 1..Len(shown) : shown[i].kind \in {"success", "info", "warning"}
    /\ pc = "stopped" =>
          /\ Shown(NoDatapoints)
          /\ ~ENABLED NextApp
    /\ (Loaded /\ ~Empty(frames, data)) => pc # "stopped"

\* C9 witness: a run stopped on an empty dataset (a second witness, a run
\* that went through to the charts after one call, is C9_WitnessNonEmpty).
C9_Witness ==
    /\ pc = "stopped"
    /\ Loaded
    /\ Empty(frames, data)
    /\ calls = 0

C9_WitnessNonEmpty ==
    /\ pc = "done"
    /\ calls = 1
    /\ Shown(Element("pyplot", "Visualisations"))

SummaryActed ==
    \/ pc \in {"summarised", "tabled", "done"}
    \/ pc = "crashed" /\ ~IsNaN(selected_rpm)

\* C10: for the selected RPM block, when at least one row is feasible the
\* three summary figures (peak motor efficiency, maximum thrust, maximum
\* current draw) are shown, each over the feasible rows of the block, and
\* no error is raised, also when feasible rows have an undefined
\* motor_efficiency; when no row is feasible the warning is shown and none
\* of the figures.
C10_SummaryShown ==
    SummaryActed =>
        IF Len(FeasibleFrame) > 0
        THEN /\ outcome = "return"
             /\ \E i \in 1..Len(shown) :
                   /\ i + 2 <= Len(shown)
                   /\ shown[i] =
                         Metric("Peak motor efficiency",
                                RMax(NotNaN(Column(FeasibleFrame, "motor_efficiency"))))
                   /\ shown[i + 1] =
                         Metric("Max thrust", RMax(Column(FeasibleFrame, "thrust_n")))
                   /\ shown[i + 2] =
                         Metric("Max current draw",
                                RMax(Column(FeasibleFrame, "motor_current_a")))
             /\ ~Shown(NoFeasible)
        ELSE /\ Shown(NoFeasible)
             /\ \A i \in 1..Len(shown) : shown[i].kind # "metric"

====
